---- MODULE Spec2Model ----
(***************************************************************************)
(* queuectl: a multi-worker job queue on top of one SQLite file.           *)
(* The model covers the store (tables jobs and dlq, database.py), the     *)
(* worker loop (worker.py), the operator commands enqueue, dlq retry and  *)
(* config set (cli/), and the clock the timestamps are read from.         *)
(* Every store operation is one transaction and hence one atomic step;    *)
(* what a process does between two transactions is interleaved freely     *)
(* with the steps of the other processes.                                 *)
(***************************************************************************)
EXTENDS Integers, Sequences, FiniteSets, TLC

\* ---------------------------------------------------------------- bounds
Ids == {"j1", "j2"}
Commands == {"cmd_a", "cmd_b"}
Workers == {"w1", "w2"}
MaxClock == 1
MaxOps == 3
TicksPerSecond == 2
MaxElapsed == 4
MaxRetriesValues == {0, 2}
BackoffBaseValues == {-1, 2}

\* ------------------------------------------------------------- job model
PENDING == "pending"
PROCESSING == "processing"
COMPLETED == "completed"
FAILED == "failed"
DEAD == "dead"
JobState == {PENDING, PROCESSING, COMPLETED, FAILED, DEAD}

NoJob == [id |-> "none"]

\* The Job dataclass; the id is a field of the in-memory object and the key
\* of the stored row.
Job(id, command, state, attempts, max_retries, created_at, updated_at) ==
    [id |-> id, command |-> command, state |-> state, attempts |-> attempts,
     max_retries |-> max_retries, created_at |-> created_at,
     updated_at |-> updated_at]

\* datetime.isoformat(): the fields are fixed-width and zero-padded, so a
\* timestamp is modelled as the sequence of its numeric fields; the
\* fractional field is omitted when it is zero.
isoformat(t) ==
    IF t % TicksPerSecond = 0
    THEN << t \div TicksPerSecond >>
    ELSE << t \div TicksPerSecond, t % TicksPerSecond >>

\* SQLite's TEXT ordering (memcmp, a proper prefix sorts first).
TextLess(a, b) ==
    \E i \in 1..Len(b) :
        /\ i - 1 <= Len(a)
        /\ \A k \in 1..(i - 1) : a[k] = b[k]
        /\ (i > Len(a) \/ a[i] < b[i])

TextLeq(a, b) == a = b \/ TextLess(a, b)

\* ------------------------------------------------------------------ state
VARIABLES
    jobs,      \* table jobs: id -> row
    dlq,       \* table dlq: id -> row
    config,    \* config.json
    now,       \* the clock behind datetime.utcnow()
    pc,        \* position of each worker in run_worker
    job,       \* the in-memory Job each worker holds
    bb,        \* backoff_base as read by the running handle_failed_job
    ret,       \* return value of the operator's last add_job / retry_dlq_job
    ops,       \* number of operator commands run so far
    retried,   \* history: ids that were ever returned to PENDING
    overtake,  \* history: <<j, k>>: j was requeued while the newer k waited
    runs,      \* history: executions of each id since its last insertion into jobs
    passed,    \* history: ids with a successful execution since that insertion
    shutdown_flag,  \* worker.shutdown_flag of each worker process
    pidfile,   \* workers.pid
    sleep_left,  \* seconds left of each worker's time.sleep(delay)
    since      \* history: seconds since each id was last requeued, capped

vars == << jobs, dlq, config, now, pc, job, bb, ret, ops, retried, overtake,
          runs, passed, shutdown_flag, pidfile, sleep_left, since >>

DEFAULT_CONFIG == [max_retries |-> 3, backoff_base |-> 2]

\* workers.pid: absent, or the pids written one per line. A worker's name
\* stands for its pid.
NoPidFile == [exists |-> FALSE, pids |-> {}]
PidFile(pids) == [exists |-> TRUE, pids |-> pids]

Init ==
    /\ jobs = << >>
    /\ dlq = << >>
    /\ config = DEFAULT_CONFIG
    /\ now = 0
    /\ pc = [w \in Workers |-> "loop"]
    /\ job = [w \in Workers |-> NoJob]
    /\ bb = [w \in Workers |-> 0]
    /\ ret = "none"
    /\ ops = 0
    /\ retried = {}
    /\ overtake = {}
    /\ runs = [id \in Ids |-> 0]
    /\ passed = {}
    /\ shutdown_flag = [w \in Workers |-> FALSE]
    /\ pidfile = PidFile(Workers)
    /\ sleep_left = [w \in Workers |-> 0]
    /\ since = [id \in Ids |-> 0]

\* ------------------------------------------------------------ the store
Row(j) == [command |-> j.command, state |-> j.state, attempts |-> j.attempts,
           max_retries |-> j.max_retries, created_at |-> j.created_at,
           updated_at |-> j.updated_at]

from_db_row(id, row) ==
    Job(id, row.command, row.state, row.attempts, row.max_retries,
        row.created_at, row.updated_at)

Insert(table, id, row) == (id :> row) @@ table
Delete(table, id) == [i \in (DOMAIN table) \ {id} |-> table[i]]

\* get_db_conn: the context manager catches sqlite3.Error, rolls back and
\* does not re-raise, so no sqlite3 error leaves a with-block.
Propagates(err) == err \notin {"IntegrityError", "OperationalError"}

\* INSERT on a table with PRIMARY KEY id.
InsertError(table, id) == IF id \in DOMAIN table THEN "IntegrityError" ELSE "ok"

\* add_job: the effect on table jobs and the value returned.
add_job_table(table, j) ==
    IF InsertError(table, j.id) = "ok" THEN Insert(table, j.id, Row(j)) ELSE table

add_job_return(table, j) ==
    IF InsertError(table, j.id) # "ok" /\ Propagates(InsertError(table, j.id))
    THEN "false" ELSE "true"

\* update_job: UPDATE ... WHERE id = ?, no row matched means no change.
update_job(table, j) ==
    IF j.id \in DOMAIN table
    THEN [table EXCEPT ![j.id] = [@ EXCEPT !.state = j.state,
                                           !.attempts = j.attempts,
                                           !.updated_at = j.updated_at]]
    ELSE table

\* move_to_dlq: INSERT INTO dlq then DELETE FROM jobs in one transaction; a
\* failed INSERT rolls the transaction back and the DELETE is not reached.
move_to_dlq_ok(d, j) == InsertError(d, j.id) = "ok"
move_to_dlq_dlq(d, j) == IF move_to_dlq_ok(d, j) THEN Insert(d, j.id, Row(j)) ELSE d
move_to_dlq_jobs(t, d, j) == IF move_to_dlq_ok(d, j) THEN Delete(t, j.id) ELSE t

\* get_next_pending_job_atomic: the rows the SELECT may return.
PendingIds_AnyState(table) == DOMAIN table
PendingIds(table) == {i \in DOMAIN table : table[i].state = PENDING}
OldestPending(table) ==
    {i \in PendingIds(table) :
        \A k \in PendingIds(table) :
            ~ TextLess(table[k].created_at, table[i].created_at)}

\* retry_dlq_job: INSERT INTO jobs then DELETE FROM dlq.
retry_dlq_ok_Replace(t, j) == TRUE
retry_dlq_ok(t, j) == InsertError(t, j.id) = "ok"

\* ------------------------------------------------------------- the clock
Tick ==
    /\ now < MaxClock
    /\ now' = now + 1
    /\ UNCHANGED << jobs, dlq, config, pc, job, bb, ret, ops, retried,
                    overtake, runs, passed, shutdown_flag, pidfile,
                    sleep_left, since >>

\* A process reads the clock before the transaction that stores the value
\* commits: the value is any instant from lo up to the commit.
utcnow(lo) == {isoformat(t) : t \in lo..now}
Instants == 0..MaxClock
Instant(s) == CHOOSE t \in Instants : isoformat(t) = s


\* ------------------------------------------------------ operator commands
\* enqueue: Job(id, command) takes both timestamps from the clock when the
\* object is built, created_at first; add_job overwrites max_retries with
\* the configured value and inserts the row.
enqueue_job(id, command, c, u) ==
    Job(id, command, PENDING, 0, config.max_retries, isoformat(c), isoformat(u))

AddJob(id, command, c, u) ==
    /\ ops < MaxOps /\ ops' = ops + 1
    /\ c <= u /\ u <= now
    /\ jobs' = add_job_table(jobs, enqueue_job(id, command, c, u))
    /\ ret' = add_job_return(jobs, enqueue_job(id, command, c, u))
    /\ runs' = IF InsertError(jobs, id) = "ok" THEN [runs EXCEPT ![id] = 0] ELSE runs
    /\ passed' = IF InsertError(jobs, id) = "ok" THEN passed \ {id} ELSE passed
    /\ UNCHANGED << dlq, config, now, pc, job, bb, retried, overtake,
                    shutdown_flag, pidfile, sleep_left, since >>

\* dlq retry: find_dlq_job, then retry_dlq_job on the row found.
retry_job_Recreated(id, u) ==
    [from_db_row(id, dlq[id]) EXCEPT !.state = PENDING, !.attempts = 0,
                                     !.created_at = u, !.updated_at = u]
retry_job(id, u) ==
    [from_db_row(id, dlq[id]) EXCEPT !.state = PENDING, !.attempts = 0,
                                     !.updated_at = u]

RetryFromDLQ(id) ==
    /\ ops < MaxOps /\ ops' = ops + 1
    /\ id \in DOMAIN dlq
    /\ \E u \in utcnow(Instant(dlq[id].updated_at)) :
        IF retry_dlq_ok(jobs, retry_job(id, u))
        THEN /\ jobs' = Insert(jobs, id, Row(retry_job(id, u)))
             /\ dlq' = Delete(dlq, id)
             /\ ret' = "true"
             /\ retried' = retried \cup {id}
             /\ runs' = [runs EXCEPT ![id] = 0]
             /\ passed' = passed \ {id}
        ELSE /\ ret' = "false"
             /\ UNCHANGED << jobs, dlq, retried, runs, passed >>
    /\ UNCHANGED << config, now, pc, job, bb, overtake, shutdown_flag,
                    pidfile, sleep_left, since >>

\* config set KEY VALUE: int(value), no range check.
ConfigSetMaxRetries(v) ==
    /\ ops < MaxOps /\ ops' = ops + 1
    /\ config' = [config EXCEPT !.max_retries = v]
    /\ UNCHANGED << jobs, dlq, now, pc, job, bb, ret, retried, overtake,
                    runs, passed, shutdown_flag, pidfile, sleep_left, since >>

ConfigSetBackoffBase(v) ==
    /\ ops < MaxOps /\ ops' = ops + 1
    /\ config' = [config EXCEPT !.backoff_base = v]
    /\ UNCHANGED << jobs, dlq, now, pc, job, bb, ret, retried, overtake,
                    runs, passed, shutdown_flag, pidfile, sleep_left, since >>

\* ------------------------------------------------------------ the worker
RECURSIVE Pow(_, _)
Pow(b, n) == IF n = 0 THEN 1 ELSE b * Pow(b, n - 1)

\* delay = backoff_base ** job.attempts; time.sleep raises on a negative one.
Delay(b, attempts) == Pow(b, attempts)
SleepRaises(d) == d < 0

\* handle_failed_job: the job's own max_retries if positive, else the config's.
EffectiveMaxRetries_ConfigOnly(j, cfg) == cfg.max_retries
EffectiveMaxRetries(j, cfg) ==
    IF j.max_retries > 0 THEN j.max_retries ELSE cfg.max_retries

Exhausted(j, cfg) == j.attempts >= EffectiveMaxRetries(j, cfg)

\* The newer PENDING jobs a requeued job finds waiting.
WaitingNewer(id) ==
    IF id \in DOMAIN jobs
    THEN {k \in PendingIds(jobs) \ {id} :
            TextLess(jobs[id].created_at, jobs[k].created_at)}
    ELSE {}

\* get_next_pending_job_atomic under the write lock, then job.attempts += 1;
\* execute_job follows at once, so a claim starts one execution of the job.
claimed_job(id) ==
    [from_db_row(id, jobs[id]) EXCEPT !.state = PROCESSING,
                                      !.updated_at = isoformat(now)]

claim_table(table, j) ==
    [table EXCEPT ![j.id] = [@ EXCEPT !.state = j.state,
                                      !.updated_at = j.updated_at]]

Claim(w) ==
    /\ pc[w] = "loop"
    /\ \E id \in OldestPending(jobs) :
        /\ jobs' = claim_table(jobs, claimed_job(id))
        /\ job' = [job EXCEPT ![w] = [claimed_job(id) EXCEPT !.attempts = @ + 1]]
        /\ overtake' = {p \in overtake : p[1] # id /\ p[2] # id}
        /\ runs' = [runs EXCEPT ![id] = @ + 1]
    /\ pc' = [pc EXCEPT ![w] = "exec"]
    /\ UNCHANGED << dlq, config, now, bb, ret, ops, retried, passed,
                    shutdown_flag, pidfile, sleep_left, since >>

ClaimEmpty(w) ==
    /\ pc[w] = "loop"
    /\ PendingIds(jobs) = {}
    /\ pc' = [pc EXCEPT ![w] = "idle"]
    /\ UNCHANGED << jobs, dlq, config, now, job, bb, ret, ops, retried,
                    overtake, runs, passed, shutdown_flag, pidfile,
                    sleep_left, since >>

\* while not shutdown_flag: where a worker that reaches the top of the loop
\* goes. At "loop" the condition has been passed and the claim comes next.
LoopTop(w) == IF shutdown_flag[w] THEN "stopped" ELSE "loop"

\* time.sleep(1), then the loop condition.
IdleWake(w) ==
    /\ pc[w] = "idle"
    /\ pc' = [pc EXCEPT ![w] = LoopTop(w)]
    /\ UNCHANGED << jobs, dlq, config, now, job, bb, ret, ops, retried,
                    overtake, runs, passed, shutdown_flag, pidfile,
                    sleep_left, since >>

\* update_job and move_to_dlq stamp the in-memory Job before they store it.
Stamped(j, state, u) == [j EXCEPT !.state = state, !.updated_at = u]
dead_job_StateKept(j, u) == [j EXCEPT !.updated_at = u]
dead_job(j, u) == Stamped(j, DEAD, u)
Stamps(j) == utcnow(Instant(j.updated_at))

\* execute_job returned True.
ExecSuccess(w) ==
    /\ pc[w] = "exec"
    /\ \E u \in Stamps(job[w]) :
        jobs' = update_job(jobs, Stamped(job[w], COMPLETED, u))
    /\ pc' = [pc EXCEPT ![w] = LoopTop(w)]
    /\ job' = [job EXCEPT ![w] = NoJob]
    /\ passed' = passed \cup {job[w].id}
    /\ UNCHANGED << dlq, config, now, bb, ret, ops, retried, overtake, runs,
                    shutdown_flag, pidfile, sleep_left, since >>

\* handle_failed_job is called from the loop body when execute_job returned
\* False ("exec") and from the loop's except clause ("except"); after the
\* except clause comes time.sleep(1), and an exception raised inside the
\* except clause leaves run_worker.
InHandleFailed(w) == pc[w] \in {"exec", "except"} /\ job[w] # NoJob
AfterPromote(p, top) == IF p = "exec" THEN top ELSE "idle"
AfterRecord(p) == IF p = "exec" THEN "requeue" ELSE "except_requeue"
AfterSleep(p) == IF p = "requeue" THEN "backoff" ELSE "idle"
AfterRaise(p) == IF p = "requeue" THEN "except" ELSE "crashed"

\* handle_failed_job, the branch that promotes the job to the dlq.
FailToDLQ(w) ==
    /\ InHandleFailed(w)
    /\ Exhausted(job[w], config)
    /\ \E u \in Stamps(job[w]) :
        /\ dlq' = move_to_dlq_dlq(dlq, dead_job(job[w], u))
        /\ jobs' = move_to_dlq_jobs(jobs, dlq, dead_job(job[w], u))
    /\ pc' = [pc EXCEPT ![w] = AfterPromote(pc[w], LoopTop(w))]
    /\ job' = [job EXCEPT ![w] = NoJob]
    /\ UNCHANGED << config, now, bb, ret, ops, retried, overtake, runs,
                    passed, shutdown_flag, pidfile, sleep_left, since >>

\* handle_failed_job, the retry branch up to the first update_job.
FailRetry(w) ==
    /\ InHandleFailed(w)
    /\ ~ Exhausted(job[w], config)
    /\ \E u \in Stamps(job[w]) :
        /\ jobs' = update_job(jobs, Stamped(job[w], FAILED, u))
        /\ job' = [job EXCEPT ![w] = Stamped(job[w], FAILED, u)]
    /\ bb' = [bb EXCEPT ![w] = config.backoff_base]
    /\ pc' = [pc EXCEPT ![w] = AfterRecord(pc[w])]
    /\ UNCHANGED << dlq, config, now, ret, ops, retried, overtake, runs,
                    passed, shutdown_flag, pidfile, sleep_left, since >>

\* handle_failed_job, the second update_job and the sleep. The worker keeps
\* its Job object only if the except clause is going to use it.
Requeue(w) ==
    /\ pc[w] \in {"requeue", "except_requeue"}
    /\ \E u \in Stamps(job[w]) :
        /\ jobs' = update_job(jobs, Stamped(job[w], PENDING, u))
        /\ job' = [job EXCEPT ![w] =
                     IF SleepRaises(Delay(bb[w], job[w].attempts))
                        /\ AfterRaise(pc[w]) = "except"
                     THEN Stamped(job[w], PENDING, u) ELSE NoJob]
    /\ pc' = [pc EXCEPT ![w] =
                IF SleepRaises(Delay(bb[w], job[w].attempts))
                THEN AfterRaise(pc[w]) ELSE AfterSleep(pc[w])]
    /\ retried' = IF job[w].id \in DOMAIN jobs
                  THEN retried \cup {job[w].id} ELSE retried
    /\ overtake' = overtake \cup {<< job[w].id, k >> : k \in WaitingNewer(job[w].id)}
    /\ sleep_left' = [sleep_left EXCEPT ![w] =
                        IF AfterSleep(pc[w]) = "backoff"
                           /\ ~ SleepRaises(Delay(bb[w], job[w].attempts))
                        THEN Delay(bb[w], job[w].attempts) ELSE @]
    /\ since' = [since EXCEPT ![job[w].id] = 0]
    /\ UNCHANGED << dlq, config, now, bb, ret, ops, runs, passed,
                    shutdown_flag, pidfile >>

\* time.sleep(delay) has returned.
BackoffDone(w) ==
    /\ pc[w] = "backoff"
    /\ pc' = [pc EXCEPT ![w] = LoopTop(w)]
    /\ sleep_left' = [sleep_left EXCEPT ![w] = 0]
    /\ UNCHANGED << jobs, dlq, config, now, job, bb, ret, ops, retried,
                    overtake, runs, passed, shutdown_flag, pidfile, since >>

\* time.sleep(delay) returns no sooner than delay seconds after the call.
BackoffDoneOnTime(w) == sleep_left[w] = 0 /\ BackoffDone(w)

\* One second of wall time passes.
Elapse ==
    /\ \/ \E w \in Workers : sleep_left[w] > 0
       \/ \E id \in Ids : since[id] < MaxElapsed
    /\ sleep_left' = [w \in Workers |->
                        IF sleep_left[w] > 0 THEN sleep_left[w] - 1 ELSE 0]
    /\ since' = [id \in Ids |->
                   IF since[id] < MaxElapsed THEN since[id] + 1 ELSE since[id]]
    /\ UNCHANGED << jobs, dlq, config, now, pc, job, bb, ret, ops, retried,
                    overtake, runs, passed, shutdown_flag, pidfile >>

\* ------------------------------------------------------ lock contention
\* get_next_pending_job_atomic when BEGIN IMMEDIATE fails with "database is
\* locked" after the busy timeout: the handler's print evaluates os.getpid()
\* in a module that does not import os, and the NameError this raises is not
\* a sqlite3.Error, so neither the handler nor get_db_conn stops it.
ImportedByDatabase ==
    {"sqlite3", "threading", "contextmanager", "datetime", "Optional", "List",
     "Tuple", "Dict", "Any", "DB_PATH", "get_config_value", "Job", "JobState"}
LockedOutcome == IF "os" \in ImportedByDatabase THEN "empty" ELSE "NameError"

\* The claim meets a held write lock. No statement of the transaction has
\* run; run_worker gets either the empty result or the exception.
ClaimLocked(w) ==
    /\ pc[w] = "loop"
    /\ pc' = [pc EXCEPT ![w] = IF LockedOutcome = "empty" THEN "idle" ELSE "except"]
    /\ UNCHANGED << jobs, dlq, config, now, job, bb, ret, ops, retried,
                    overtake, runs, passed, shutdown_flag, pidfile,
                    sleep_left, since >>

\* The except clause of run_worker with job still None: time.sleep(1) only.
ExceptNoJob(w) ==
    /\ pc[w] = "except" /\ job[w] = NoJob
    /\ pc' = [pc EXCEPT ![w] = "idle"]
    /\ UNCHANGED << jobs, dlq, config, now, job, bb, ret, ops, retried,
                    overtake, runs, passed, shutdown_flag, pidfile,
                    sleep_left, since >>

\* update_job and move_to_dlq when the write lock stays held beyond the busy
\* timeout: the statement raises sqlite3.OperationalError inside the
\* with-block, get_db_conn rolls back and swallows it, and the caller goes
\* on as after a write that was stored. The Job object was stamped before.
ExecSuccessLocked(w) ==
    /\ pc[w] = "exec"
    /\ pc' = [pc EXCEPT ![w] = LoopTop(w)]
    /\ job' = [job EXCEPT ![w] = NoJob]
    /\ passed' = passed \cup {job[w].id}
    /\ UNCHANGED << jobs, dlq, config, now, bb, ret, ops, retried, overtake,
                    runs, shutdown_flag, pidfile, sleep_left, since >>

FailToDLQLocked(w) ==
    /\ InHandleFailed(w)
    /\ Exhausted(job[w], config)
    /\ pc' = [pc EXCEPT ![w] = AfterPromote(pc[w], LoopTop(w))]
    /\ job' = [job EXCEPT ![w] = NoJob]
    /\ UNCHANGED << jobs, dlq, config, now, bb, ret, ops, retried, overtake,
                    runs, passed, shutdown_flag, pidfile, sleep_left, since >>

FailRetryLocked(w) ==
    /\ InHandleFailed(w)
    /\ ~ Exhausted(job[w], config)
    /\ \E u \in Stamps(job[w]) :
        job' = [job EXCEPT ![w] = Stamped(job[w], FAILED, u)]
    /\ bb' = [bb EXCEPT ![w] = config.backoff_base]
    /\ pc' = [pc EXCEPT ![w] = AfterRecord(pc[w])]
    /\ UNCHANGED << jobs, dlq, config, now, ret, ops, retried, overtake,
                    runs, passed, shutdown_flag, pidfile, sleep_left, since >>

RequeueLocked(w) ==
    /\ pc[w] \in {"requeue", "except_requeue"}
    /\ \E u \in Stamps(job[w]) :
        job' = [job EXCEPT ![w] =
                  IF SleepRaises(Delay(bb[w], job[w].attempts))
                     /\ AfterRaise(pc[w]) = "except"
                  THEN Stamped(job[w], PENDING, u) ELSE NoJob]
    /\ pc' = [pc EXCEPT ![w] =
                IF SleepRaises(Delay(bb[w], job[w].attempts))
                THEN AfterRaise(pc[w]) ELSE AfterSleep(pc[w])]
    /\ sleep_left' = [sleep_left EXCEPT ![w] =
                        IF AfterSleep(pc[w]) = "backoff"
                           /\ ~ SleepRaises(Delay(bb[w], job[w].attempts))
                        THEN Delay(bb[w], job[w].attempts) ELSE @]
    /\ UNCHANGED << jobs, dlq, config, now, bb, ret, ops, retried, overtake,
                    runs, passed, shutdown_flag, pidfile, since >>

WriteBackLocked(w) ==
    \/ ExecSuccessLocked(w)
    \/ FailToDLQLocked(w)
    \/ FailRetryLocked(w)
    \/ RequeueLocked(w)

\* -------------------------------------------------------- the supervisor
\* psutil.pid_exists: the process was forked and has not left run_worker.
Alive(w) == pc[w] \notin {"none", "stopped", "crashed"}

\* signal_handler, run in worker w on SIGTERM or SIGINT.
signal_handler(flags, w) == [flags EXCEPT ![w] = TRUE]

\* An interrupt signal sent to one worker process.
Interrupt(w) ==
    /\ Alive(w)
    /\ shutdown_flag' = signal_handler(shutdown_flag, w)
    /\ UNCHANGED << jobs, dlq, config, now, pc, job, bb, ret, ops, retried,
                    overtake, runs, passed, pidfile, sleep_left, since >>

\* start_workers: fork count children, each with the flag of a fresh module,
\* then write their pids over the PID file.
start_workers(started) ==
    /\ started # {}
    /\ \A w \in started : pc[w] = "none"
    /\ pc' = [w \in Workers |-> IF w \in started THEN "loop" ELSE pc[w]]
    /\ shutdown_flag' = [w \in Workers |->
                            IF w \in started THEN FALSE ELSE shutdown_flag[w]]
    /\ pidfile' = PidFile(started)
    /\ UNCHANGED << jobs, dlq, config, now, job, bb, ret, ops, retried,
                    overtake, runs, passed, sleep_left, since >>

\* stop_workers: SIGTERM to every listed pid that exists, then os.remove.
Signalled_Inverted(file) == {w \in file.pids : ~ Alive(w)}
Signalled(file) == {w \in file.pids : Alive(w)}

stop_workers ==
    /\ shutdown_flag' = [w \in Workers |->
                            IF pidfile.exists /\ w \in Signalled(pidfile)
                            THEN TRUE ELSE shutdown_flag[w]]
    /\ pidfile' = NoPidFile
    /\ UNCHANGED << jobs, dlq, config, now, pc, job, bb, ret, ops, retried,
                    overtake, runs, passed, sleep_left, since >>

\* get_worker_status: a PID file that exists and is not empty is rewritten
\* with the pids that exist.
get_worker_status ==
    /\ pidfile' = IF pidfile.exists /\ pidfile.pids # {}
                  THEN PidFile({w \in pidfile.pids : Alive(w)})
                  ELSE pidfile
    /\ UNCHANGED << jobs, dlq, config, now, pc, job, bb, ret, ops, retried,
                    overtake, runs, passed, shutdown_flag, sleep_left, since >>

\* ------------------------------------------------------- specifications
Operator ==
    \/ \E id \in Ids, command \in Commands, c \in Instants, u \in Instants :
           AddJob(id, command, c, u)
    \/ \E id \in Ids : RetryFromDLQ(id)
    \/ \E v \in MaxRetriesValues : ConfigSetMaxRetries(v)
    \/ \E v \in BackoffBaseValues : ConfigSetBackoffBase(v)

\* run_worker up to the backoff sleep, and with its end.
Work(w) ==
    \/ Claim(w)
    \/ ClaimEmpty(w)
    \/ IdleWake(w)
    \/ ExecSuccess(w)
    \/ FailToDLQ(w)
    \/ FailRetry(w)
    \/ Requeue(w)

Worker(w) == Work(w) \/ BackoffDone(w)

Next ==
    \/ Tick
    \/ Operator
    \/ \E w \in Workers : Worker(w)

Spec == Init /\ [][Next]_vars

\* K jobs enqueued under some configuration, all PENDING, and the workers
\* left alone: no operator command, no worker crash (the backoff base is not
\* negative, so no sleep raises), every worker process keeps being scheduled.
LiveConfigs ==
    {[max_retries |-> m, backoff_base |-> b] :
        m \in MaxRetriesValues \cup {DEFAULT_CONFIG.max_retries},
        b \in {v \in BackoffBaseValues \cup {DEFAULT_CONFIG.backoff_base} : v >= 0}}

LiveRows ==
    {[command |-> "cmd_a", state |-> PENDING, attempts |-> 0, max_retries |-> m,
      created_at |-> isoformat(c), updated_at |-> isoformat(c)] :
        m \in MaxRetriesValues \cup {DEFAULT_CONFIG.max_retries},
        c \in Instants}

InitLive ==
    /\ \E population \in (SUBSET Ids) \ {{}} : jobs \in [population -> LiveRows]
    /\ dlq = << >>
    /\ config \in LiveConfigs
    /\ now = MaxClock
    /\ pc = [w \in Workers |-> "loop"]
    /\ job = [w \in Workers |-> NoJob]
    /\ bb = [w \in Workers |-> 0]
    /\ ret = "none"
    /\ ops = 0
    /\ retried = {}
    /\ overtake = {}
    /\ runs = [id \in Ids |-> 0]
    /\ passed = {}
    /\ shutdown_flag = [w \in Workers |-> FALSE]
    /\ pidfile = PidFile(Workers)
    /\ sleep_left = [w \in Workers |-> 0]
    /\ since = [id \in Ids |-> 0]

NextLive == \E w \in Workers : Worker(w)

SpecLive == InitLive /\ [][NextLive]_vars /\ \A w \in Workers : WF_vars(Worker(w))


\* The supervisor's commands and interrupt signals around workers that find
\* a population of PENDING jobs; no worker process exists at the start.
InitSup ==
    /\ \E population \in (SUBSET Ids) \ {{}} : jobs \in [population -> LiveRows]
    /\ dlq = << >>
    /\ config = DEFAULT_CONFIG
    /\ now = MaxClock
    /\ pc = [w \in Workers |-> "none"]
    /\ job = [w \in Workers |-> NoJob]
    /\ bb = [w \in Workers |-> 0]
    /\ ret = "none"
    /\ ops = 0
    /\ retried = {}
    /\ overtake = {}
    /\ runs = [id \in Ids |-> 0]
    /\ passed = {}
    /\ shutdown_flag = [w \in Workers |-> FALSE]
    /\ pidfile = NoPidFile
    /\ sleep_left = [w \in Workers |-> 0]
    /\ since = [id \in Ids |-> 0]

Supervisor ==
    \/ \E started \in SUBSET Workers : start_workers(started)
    \/ stop_workers
    \/ get_worker_status

NextSup ==
    \/ Supervisor
    \/ \E w \in Workers : Interrupt(w)
    \/ \E w \in Workers : Worker(w)

SpecSup ==
    InitSup /\ [][NextSup]_vars /\ \A w \in Workers : WF_vars(Worker(w))

\* The workers and a population of PENDING jobs under wall time: a second
\* passes with Elapse, and a worker leaves its backoff sleep only when the
\* delay is over.
NextTimed ==
    \/ Elapse
    \/ \E w \in Workers : Work(w)
    \/ \E w \in Workers : BackoffDoneOnTime(w)

SpecTimed == InitLive /\ [][NextTimed]_vars

\* The workers and a population of PENDING jobs, with claims and write-backs
\* that may find the write lock held beyond the busy timeout.
NextBusy ==
    \/ NextLive
    \/ \E w \in Workers : ClaimLocked(w)
    \/ \E w \in Workers : ExceptNoJob(w)
    \/ \E w \in Workers : WriteBackLocked(w)

SpecBusy == InitLive /\ [][NextBusy]_vars


\* ------------------------------------------------------------ properties
InJobs(id) == id \in DOMAIN jobs
InDlq(id) == id \in DOMAIN dlq

\* C1: no job id occurs in both the jobs table and the dlq table (each
\* table has the id as its primary key, so within a table it is unique).
C1_UniqueIds == \A id \in Ids : ~ (InJobs(id) /\ InDlq(id))

\* A worker holds a job in flight from its claim until it has written the
\* job back as COMPLETED, PENDING or DEAD.
InFlight(w) == pc[w] \in {"exec", "requeue"}

\* C2: two workers never hold the same job in flight at the same time.
C2_AtMostOneClaim ==
    \A w1 \in Workers, w2 \in Workers :
        (w1 # w2 /\ InFlight(w1) /\ InFlight(w2)) => job[w1].id # job[w2].id

\* A job has finished: COMPLETED in jobs, or moved to the dlq.
Terminal(id) ==
    \/ InJobs(id) /\ ~ InDlq(id) /\ jobs[id].state = COMPLETED
    \/ InDlq(id) /\ ~ InJobs(id) /\ dlq[id].state = DEAD
Population == DOMAIN jobs \cup DOMAIN dlq
StoredRow(id) == << IF InJobs(id) THEN jobs[id] ELSE << >>,
                   IF InDlq(id) THEN dlq[id] ELSE << >> >>

\* C3: with workers that keep running and no operator command, every one
\* of the K initial jobs eventually is COMPLETED or DEAD and stays so; no
\* job is lost or added, and a finished job is never touched again, so each
\* job finishes exactly once.
C3_EachJobFinishesOnce ==
    /\ <>[](\A id \in Population : Terminal(id))
    /\ [][/\ Population' = Population
          /\ \A id \in Population :
                Terminal(id) => StoredRow(id)' = StoredRow(id)]_vars

\* C3 witness: both jobs are finished, one in the dlq after its last
\* attempt, the other COMPLETED on a retry.
C3_Witness ==
    \E a \in Ids, b \in Ids :
        /\ Terminal(a) /\ InDlq(a) /\ dlq[a].attempts >= 2
        /\ Terminal(b) /\ InJobs(b) /\ jobs[b].attempts >= 2

\* C4: every job in the dlq has attempts = max_retries and every COMPLETED
\* job has attempts <= max_retries.
C4_BoundedAttempts ==
    /\ \A id \in DOMAIN dlq : dlq[id].attempts = dlq[id].max_retries
    /\ \A id \in DOMAIN jobs :
        jobs[id].state = COMPLETED => jobs[id].attempts <= jobs[id].max_retries

\* C5: every row of jobs has attempts <= max_retries and every row of dlq
\* has attempts >= max_retries.
C5_AttemptsWithinBudget ==
    /\ \A id \in DOMAIN jobs : jobs[id].attempts <= jobs[id].max_retries
    /\ \A id \in DOMAIN dlq : dlq[id].attempts >= dlq[id].max_retries

\* C6: every row of dlq has state DEAD and no row of jobs has state DEAD.
C6_DeadOnlyInDlq ==
    /\ \A id \in DOMAIN dlq : dlq[id].state = DEAD
    /\ \A id \in DOMAIN jobs : jobs[id].state # DEAD

\* C6 witness: a job was promoted to the dlq, then retried by the operator
\* and is being worked on again, while another job sits in the dlq.
C6_Witness ==
    \E a \in Ids, b \in Ids :
        /\ a # b /\ InDlq(a) /\ InJobs(b)
        /\ b \in retried /\ jobs[b].state \in {PROCESSING, FAILED}

\* C7: add_job with an id that is already in jobs returns false and leaves
\* both tables as they were.
C7_DuplicateRejected ==
    [][\A id \in Ids, command \in Commands, c \in Instants, u \in Instants :
          (AddJob(id, command, c, u) /\ InJobs(id))
              => (ret' = "false" /\ jobs' = jobs /\ dlq' = dlq)]_vars

\* C8: after dlq retry of a job found in dlq the id is absent from dlq and
\* present in jobs as PENDING with attempts 0 and with the command,
\* max_retries and created_at it had in the dlq, both in the same step.
C8_RetryMovesJob ==
    [][\A id \in Ids :
          RetryFromDLQ(id)
              => /\ id \notin DOMAIN dlq'
                 /\ id \in DOMAIN jobs'
                 /\ jobs'[id].state = PENDING
                 /\ jobs'[id].attempts = 0
                 /\ jobs'[id].command = dlq[id].command
                 /\ jobs'[id].max_retries = dlq[id].max_retries
                 /\ jobs'[id].created_at = dlq[id].created_at]_vars

\* A step in which worker w claims a job / finds nothing to claim.
ClaimStep(w) == pc[w] = "loop" /\ pc'[w] = "exec"
EmptyStep(w) == pc[w] = "loop" /\ pc'[w] = "idle"

\* C9, its first part: the job a claim returns was PENDING and no PENDING
\* row had an earlier created_at, the claim leaves it PROCESSING, and a
\* claim returns empty only if no row is PENDING.
C9_ClaimsOldestPending ==
    [][\A w \in Workers :
          /\ ClaimStep(w) =>
                /\ InJobs(job'[w].id)
                /\ jobs[job'[w].id].state = PENDING
                /\ jobs'[job'[w].id].state = PROCESSING
                /\ \A k \in PendingIds(jobs) :
                      Instant(jobs[job'[w].id].created_at)
                          <= Instant(jobs[k].created_at)
          /\ EmptyStep(w) => PendingIds(jobs) = {}]_vars

\* C9, first part, witness: a worker holds the job it claimed while a job created later
\* is still PENDING.
C9_Witness ==
    \E w \in Workers, k \in Ids :
        /\ pc[w] = "exec" /\ InJobs(k) /\ jobs[k].state = PENDING
        /\ Instant(job[w].created_at) < Instant(jobs[k].created_at)

\* The rows of jobs that were claimed and never returned to PENDING.
ClaimedOnce == {i \in DOMAIN jobs : jobs[i].state # PENDING /\ i \notin retried}

\* C9: jobs that have never been retried are claimed in
\* created_at order: a never-retried job is not claimed after a never-retried
\* job with a later created_at.
C9_FifoAmongNeverRetried ==
    [][\A w \in Workers :
          (ClaimStep(w) /\ job'[w].id \notin retried) =>
              \A x \in ClaimedOnce \ {job'[w].id} :
                  Instant(jobs[x].created_at) <= Instant(job'[w].created_at)]_vars

\* C10: a job requeued after a failed attempt while newer jobs were PENDING
\* is not claimed again before those newer jobs.
C10_RetriedGoesToTail ==
    [][\A w \in Workers :
          ClaimStep(w) => ~ \E k \in Ids : << job'[w].id, k >> \in overtake]_vars

\* C11: a promotion to the dlq is one step: the job a worker promotes is in
\* exactly one of the two tables before the step and after it, and after it
\* the job is in dlq with state DEAD and absent from jobs.
C11_MoveToDLQAtomic ==
    [][\A w \in Workers :
          FailToDLQ(w) =>
              /\ InJobs(job[w].id) # InDlq(job[w].id)
              /\ job[w].id \in DOMAIN dlq'
              /\ job[w].id \notin DOMAIN jobs'
              /\ dlq'[job[w].id].state = DEAD]_vars

\* C11 where the id is in one table only when the promotion starts.
C11_MoveToDLQAtomic_UniqueId ==
    [][\A w \in Workers :
          (FailToDLQ(w) /\ InJobs(job[w].id) # InDlq(job[w].id)) =>
              /\ job[w].id \in DOMAIN dlq'
              /\ job[w].id \notin DOMAIN jobs'
              /\ dlq'[job[w].id].state = DEAD]_vars

\* C12: a job with max_retries = N >= 1 whose executions all fail is run
\* exactly N times since it was last inserted into jobs: no execution is
\* started beyond the N-th, and a worker promotes the job to the dlq only
\* after the N-th execution, with attempts = N.
C12_NthAttemptThenPromotion ==
    [][\A w \in Workers :
          /\ (ClaimStep(w) /\ job'[w].max_retries >= 1 /\ job'[w].id \notin passed)
                => runs'[job'[w].id] <= job'[w].max_retries
          /\ (FailToDLQ(w) /\ job[w].max_retries >= 1 /\ job[w].id \notin passed)
                => /\ runs[job[w].id] = job[w].max_retries
                   /\ job[w].attempts = job[w].max_retries]_vars

\* In tables t (jobs) and d (dlq) the job is stored as COMPLETED or PENDING
\* in jobs, or as DEAD in dlq only.
WrittenBack(id, t, d) ==
    \/ id \in DOMAIN t /\ t[id].state \in {COMPLETED, PENDING}
    \/ id \in DOMAIN d /\ id \notin DOMAIN t /\ d[id].state = DEAD

\* C13: a worker whose shutdown flag has been set by a signal claims no
\* further job; the job it holds in flight is not dropped: when the worker
\* lets go of it the job is stored as COMPLETED, PENDING or DEAD; and the
\* worker then leaves its loop.
C13_GracefulShutdown ==
    /\ [][\A w \in Workers :
            shutdown_flag[w] =>
                /\ ~ ClaimStep(w)
                /\ (InFlight(w) /\ ~ InFlight(w)')
                      => WrittenBack(job[w].id, jobs', dlq')
                /\ (InFlight(w) /\ InFlight(w)') => job'[w].id = job[w].id]_vars
    /\ \A w \in Workers : shutdown_flag[w] ~> (pc[w] = "stopped")

\* C14: worker stop sets the shutdown flag of exactly the processes that are
\* listed in the PID file and alive, leaves no PID file behind whatever the
\* file held before, and changes no row of jobs or dlq.
C14_StopSignalsAndRemoves ==
    [][stop_workers =>
          /\ \A w \in Workers :
                shutdown_flag'[w] =
                    (shutdown_flag[w]
                        \/ (pidfile.exists /\ w \in pidfile.pids /\ Alive(w)))
          /\ ~ pidfile'.exists
          /\ jobs' = jobs /\ dlq' = dlq]_vars

\* C14 witness: the PID file is gone while a worker that was listed in it
\* carries its shutdown flag with a job in flight, and a worker of a later
\* start runs unsignalled.
C14_Witness ==
    /\ ~ pidfile.exists
    /\ \E w1 \in Workers, w2 \in Workers :
        /\ shutdown_flag[w1] /\ InFlight(w1)
        /\ Alive(w2) /\ ~ shutdown_flag[w2]

\* The state of the id's row in jobs; DEAD is the state of the row in dlq.
JobsState(id) == IF InJobs(id) THEN jobs[id].state ELSE "none"

InPlace == {<< PROCESSING, COMPLETED >>, << PROCESSING, FAILED >>,
            << FAILED, PENDING >>}

\* C15: the stored state of a job changes only along the transitions of the
\* state machine: a row enters jobs as PENDING by AddJob, or by RetryFromDLQ
\* which takes the DEAD row out of dlq; PENDING->PROCESSING by a claim;
\* PROCESSING->COMPLETED, PROCESSING->FAILED, FAILED->PENDING; and
\* PROCESSING->DEAD by the move into dlq. A COMPLETED row never changes
\* state and a DEAD row only leaves dlq by RetryFromDLQ.
C15_StateMachine ==
    [][\A id \in Ids :
          /\ JobsState(id)' # JobsState(id) =>
                \/ /\ JobsState(id) = "none" /\ JobsState(id)' = PENDING
                   /\ \/ /\ \E command \in Commands, c \in Instants, u \in Instants :
                               AddJob(id, command, c, u)
                         /\ InDlq(id)' = InDlq(id)
                      \/ RetryFromDLQ(id) /\ InDlq(id) /\ ~ InDlq(id)'
                \/ /\ JobsState(id) = PENDING /\ JobsState(id)' = PROCESSING
                   /\ \E w \in Workers : ClaimStep(w) /\ job'[w].id = id
                   /\ InDlq(id)' = InDlq(id)
                \/ /\ << JobsState(id), JobsState(id)' >> \in InPlace
                   /\ InDlq(id)' = InDlq(id)
                \/ /\ JobsState(id) = PROCESSING /\ JobsState(id)' = "none"
                   /\ ~ InDlq(id) /\ InDlq(id)' /\ dlq'[id].state = DEAD
          /\ InDlq(id)' # InDlq(id) => JobsState(id)' # JobsState(id)
          /\ (InDlq(id) /\ InDlq(id)') => dlq'[id].state = dlq[id].state]_vars

\* C16: when the execution of a claimed job has failed with the incremented
\* attempts below the effective max_retries, the worker's handling leaves
\* the job in jobs as PENDING with attempts one more than the row had when
\* it was claimed, and puts nothing into dlq.
C16_RetryableEndsPending ==
    [][\A w \in Workers :
          /\ ClaimStep(w) =>
                job'[w].attempts = jobs[job'[w].id].attempts + 1
          /\ (FailRetry(w) /\ pc[w] = "exec") =>
                /\ job[w].attempts < EffectiveMaxRetries(job[w], config)
                /\ job'[w].attempts = job[w].attempts
          /\ (Requeue(w) /\ pc[w] = "requeue") =>
                /\ job[w].id \in DOMAIN jobs'
                /\ jobs'[job[w].id].state = PENDING
                /\ jobs'[job[w].id].attempts = job[w].attempts
                /\ dlq' = dlq]_vars

\* C17: a claim that cannot get the write lock within the busy timeout
\* returns empty to run_worker, which takes the no-job branch (no exception
\* reaches its except clause); no row changes; and the worker is back at
\* its claim on a later iteration.
C17_LockedClaimReturnsEmpty ==
    [][\A w \in Workers :
          /\ ClaimLocked(w) =>
                /\ pc'[w] = "idle"
                /\ jobs' = jobs /\ dlq' = dlq
          /\ (pc[w] = "idle" /\ pc'[w] # "idle") => pc'[w] = LoopTop(w)]_vars

\* C18: dlq retry of a job whose id is also in jobs is rejected: it returns
\* false, the dlq row stays as it is, still DEAD, and the jobs row stays as
\* it is.
C18_RetryConflictRejected ==
    [][\A id \in Ids :
          (RetryFromDLQ(id) /\ InJobs(id)) =>
              /\ ret' = "false"
              /\ dlq' = dlq /\ dlq'[id].state = DEAD
              /\ jobs' = jobs]_vars

\* C18 witness: a dlq retry has returned false and the id is in both tables.
C18_Witness ==
    /\ ret = "false"
    /\ \E id \in Ids : InJobs(id) /\ InDlq(id)

\* C19: whatever the number of workers, a job whose attempt number a has
\* failed and that was requeued is not started again before backoff_base^a
\* seconds have passed.
C19_BackoffBeforeNextAttempt ==
    [][\A w \in Workers :
          (ClaimStep(w) /\ jobs[job'[w].id].attempts > 0) =>
              since[job'[w].id]
                  >= Pow(config.backoff_base, jobs[job'[w].id].attempts)]_vars

\* C20: the worker that handles a failed job holds the max_retries of the
\* job's row; if that value is positive the job is promoted to the dlq
\* exactly when its attempts have reached it, whatever the config says now,
\* and is retried while they are below it; only a row value that is not
\* positive is replaced by the config's current max_retries.
C20_EffectiveMaxRetries ==
    [][\A w \in Workers :
          /\ ClaimStep(w) =>
                job'[w].max_retries = jobs[job'[w].id].max_retries
          /\ (FailToDLQ(w) /\ job[w].max_retries > 0) =>
                job[w].attempts = job[w].max_retries
          /\ (FailRetry(w) /\ job[w].max_retries > 0) =>
                job[w].attempts < job[w].max_retries
          /\ (FailToDLQ(w) /\ job[w].max_retries <= 0) =>
                job[w].attempts >= config.max_retries
          /\ (FailRetry(w) /\ job[w].max_retries <= 0) =>
                job[w].attempts < config.max_retries]_vars

\* C20 witness: a job enqueued with a positive max_retries sits in the dlq
\* with that many attempts while the config holds a smaller value, and a
\* worker handles a job whose row value is not positive.
C20_Witness ==
    /\ \E id \in Ids :
        /\ InDlq(id) /\ dlq[id].max_retries > 0
        /\ dlq[id].attempts = dlq[id].max_retries
        /\ config.max_retries < dlq[id].max_retries
    /\ \E w \in Workers : pc[w] = "exec" /\ job[w].max_retries <= 0

\* C21: for every id the stored updated_at never goes back: not while the
\* row stays in jobs or in dlq, and not when the row moves from jobs to dlq
\* or from dlq to jobs.
C21_UpdatedAtMonotone ==
    [][\A id \in Ids :
          /\ (InJobs(id) /\ InJobs(id)') =>
                TextLeq(jobs[id].updated_at, jobs'[id].updated_at)
          /\ (InDlq(id) /\ InDlq(id)') =>
                TextLeq(dlq[id].updated_at, dlq'[id].updated_at)
          /\ (InJobs(id) /\ ~ InDlq(id) /\ InDlq(id)') =>
                TextLeq(jobs[id].updated_at, dlq'[id].updated_at)
          /\ (InDlq(id) /\ ~ InDlq(id)' /\ InJobs(id)') =>
                TextLeq(dlq[id].updated_at, jobs'[id].updated_at)]_vars

\* C21, its second part: every stored row has updated_at >= created_at.
C21_UpdatedNotBeforeCreated ==
    /\ \A id \in DOMAIN jobs : TextLeq(jobs[id].created_at, jobs[id].updated_at)
    /\ \A id \in DOMAIN dlq : TextLeq(dlq[id].created_at, dlq[id].updated_at)

\* The fields of a stored row that only AddJob sets; the id is the row's key.
Frame(row) == << row.command, row.max_retries, row.created_at >>

\* C22: the command, max_retries and created_at stored under an id do not
\* change while the row stays in jobs or in dlq, a row that enters dlq
\* carries the fields the id had in jobs, and a row that leaves dlq carries
\* them into jobs; a worker's in-memory Job keeps its id and these fields
\* from the claim on.
C22_FrameFields ==
    [][/\ \A id \in Ids :
            /\ (InJobs(id) /\ InJobs(id)') => Frame(jobs'[id]) = Frame(jobs[id])
            /\ (InDlq(id) /\ InDlq(id)') => Frame(dlq'[id]) = Frame(dlq[id])
            /\ (~ InDlq(id) /\ InDlq(id)') =>
                  InJobs(id) /\ Frame(dlq'[id]) = Frame(jobs[id])
            /\ (InDlq(id) /\ ~ InDlq(id)') =>
                  InJobs(id)' /\ Frame(jobs'[id]) = Frame(dlq[id])
       /\ \A w \in Workers :
            /\ ClaimStep(w) => Frame(job'[w]) = Frame(jobs[job'[w].id])
            /\ (job[w] # NoJob /\ job'[w] # NoJob) =>
                  job'[w].id = job[w].id /\ Frame(job'[w]) = Frame(job[w])]_vars

\* C22 witness: a row that was promoted to the dlq and retried by the
\* operator has been claimed again, while a worker writes back another job.
C22_Witness ==
    \E id \in Ids, w \in Workers :
        /\ InJobs(id) /\ ~ InDlq(id) /\ id \in retried
        /\ jobs[id].attempts = 0 /\ jobs[id].state = PROCESSING
        /\ job[w] # NoJob /\ job[w].id = id

\* A worker holds a claimed job from the claim until its handling of that
\* job ends, the handling in the except clause of run_worker included.
Holding(w) ==
    /\ job[w] # NoJob
    /\ pc[w] \in {"exec", "requeue", "except", "except_requeue"}

\* C23: when a worker that has not crashed ends its handling of a claimed
\* job and goes on to its next loop iteration, the job is stored as
\* COMPLETED or PENDING in jobs, or as DEAD in dlq and no longer in jobs;
\* also when the write-back met a busy lock or a conflicting dlq insert.
C23_WrittenBackBeforeNextClaim ==
    [][\A w \in Workers :
          (Holding(w) /\ ~ Holding(w)' /\ pc'[w] # "crashed")
              => WrittenBack(job[w].id, jobs', dlq')]_vars

\* C24: every worker process that is running and has not been sent a
\* termination signal is listed in the PID file.
C24_RunningWorkersListed ==
    \A w \in Workers :
        (Alive(w) /\ ~ shutdown_flag[w]) => (pidfile.exists /\ w \in pidfile.pids)

\* C25: a worker changes rows of jobs and dlq only with its claim and while
\* it holds the claimed job in flight, that is until its write-back as
\* COMPLETED, PENDING or DEAD; the except clause of run_worker changes none.
C25_WritesOnlyWhileClaimed ==
    [][\A w \in Workers :
          (pc'[w] # pc[w] /\ (jobs' # jobs \/ dlq' # dlq))
              => (ClaimStep(w) \/ InFlight(w))]_vars

====
